---------------------------- MODULE Spec2Model ----------------------------
(***************************************************************************)
(* myphotos: inventory of media files seen on a local machine and on a     *)
(* remote backup host.  src/myphotos.go holds two variants of the program: *)
(*   - the composite variant  (lines 1-382):  table photos, key            *)
(*     (filename, size), columns local_path / remote_path;                 *)
(*   - the relative-path variant (lines 384-696): table files, key         *)
(*     rel_path, columns on_local / on_remote.                             *)
(* Strings are sequences of one-character strings, so that suffix tests,   *)
(* splitting, integer parsing and path arithmetic are computed as the Go   *)
(* library computes them.                                                  *)
(***************************************************************************)
EXTENDS Integers, Sequences, FiniteSets, TLC

(***************************************************************************)
(* Bounds of the model.                                                    *)
(***************************************************************************)
\* longest remote listing (number of lines the scanner yields in one scan)
MaxLines == 3
\* most calls of each kind a caller of the store makes in an experiment
MaxCalls == 2
\* longest generated path handed to isExtensionAllowed (characters)
MaxPathLen == 3
\* longest generated allow-list handed to isExtensionAllowed (suffixes)
MaxExtensions == 2

(***************************************************************************)
(* Strings.                                                                *)
(***************************************************************************)
Tab == "\t"
Slash == "/"
Dot == "."
Empty == <<>>

\* strings.HasSuffix
HasSuffix(s, suffix) ==
  /\ Len(s) >= Len(suffix)
  /\ SubSeq(s, Len(s) - Len(suffix) + 1, Len(s)) = suffix

\* strings.Split(s, sep) for a one-character separator: the fields between
\* the separators, empty fields kept; Split("", sep) is one empty field.
RECURSIVE SplitFrom(_, _, _, _)
SplitFrom(s, sep, i, cur) ==
  IF i > Len(s) THEN <<cur>>
  ELSE IF s[i] = sep THEN <<cur>> \o SplitFrom(s, sep, i + 1, <<>>)
  ELSE SplitFrom(s, sep, i + 1, Append(cur, s[i]))

Split(s, sep) == SplitFrom(s, sep, 1, <<>>)

\* strings.Join with a one-character separator
RECURSIVE JoinWith(_, _)
JoinWith(parts, sep) ==
  IF Len(parts) = 0 THEN <<>>
  ELSE IF Len(parts) = 1 THEN parts[1]
  ELSE parts[1] \o <<sep>> \o JoinWith(Tail(parts), sep)

Digits == {"0", "1", "2", "3", "4", "5", "6", "7", "8", "9"}

DigitVal(c) ==
  CASE c = "0" -> 0 [] c = "1" -> 1 [] c = "2" -> 2 [] c = "3" -> 3
    [] c = "4" -> 4 [] c = "5" -> 5 [] c = "6" -> 6 [] c = "7" -> 7
    [] c = "8" -> 8 [] c = "9" -> 9

RECURSIVE DigitsValue(_, _)
DigitsValue(ds, acc) ==
  IF Len(ds) = 0 THEN acc
  ELSE DigitsValue(Tail(ds), acc * 10 + DigitVal(Head(ds)))

\* the longest digit string that cannot overflow a signed 64-bit integer
Int64SafeDigits == 18

\* strconv.ParseInt(s, 10, 64): an optional sign, then one or more decimal
\* digits and nothing else.  [ok |-> FALSE] is the error return.  A digit
\* string of more than Int64SafeDigits digits is outside every listing of
\* this model and is reported as the range error.
ParseInt(s) ==
  LET signed == Len(s) > 0 /\ s[1] \in {"+", "-"}
      ds     == IF signed THEN Tail(s) ELSE s
  IN  IF Len(ds) = 0 \/ (\E i \in 1..Len(ds) : ds[i] \notin Digits)
        \/ Len(ds) > Int64SafeDigits
      THEN [ok |-> FALSE, v |-> 0]
      ELSE [ok |-> TRUE,
            v  |-> IF signed /\ s[1] = "-" THEN 0 - DigitsValue(ds, 0)
                   ELSE DigitsValue(ds, 0)]

(***************************************************************************)
(* Paths (path/filepath on a slash-separated system).                      *)
(***************************************************************************)
IsAbs(p) == Len(p) > 0 /\ p[1] = Slash

DotDot == <<Dot, Dot>>

\* the elements of a path after lexical cleaning: empty and "." elements
\* dropped, ".." cancelling the element before it (dropped at the root,
\* kept at the start of a relative path)
RECURSIVE CleanElems(_, _, _)
CleanElems(elems, rooted, acc) ==
  IF Len(elems) = 0 THEN acc
  ELSE LET e == Head(elems) IN
    IF e = <<>> \/ e = <<Dot>> THEN CleanElems(Tail(elems), rooted, acc)
    ELSE IF e = DotDot THEN
      IF Len(acc) > 0 /\ acc[Len(acc)] # DotDot
        THEN CleanElems(Tail(elems), rooted, SubSeq(acc, 1, Len(acc) - 1))
      ELSE IF rooted THEN CleanElems(Tail(elems), rooted, acc)
      ELSE CleanElems(Tail(elems), rooted, Append(acc, e))
    ELSE CleanElems(Tail(elems), rooted, Append(acc, e))

Elems(p) == CleanElems(Split(p, Slash), IsAbs(p), <<>>)

\* filepath.Clean
Clean(p) ==
  LET body == JoinWith(Elems(p), Slash) IN
  IF IsAbs(p) THEN <<Slash>> \o body
  ELSE IF Len(body) = 0 THEN <<Dot>> ELSE body

\* filepath.Base: the last element, trailing slashes removed; "." for the
\* empty path and "/" for a path of slashes only
RECURSIVE StripTrailingSlashes(_)
StripTrailingSlashes(p) ==
  IF Len(p) > 0 /\ p[Len(p)] = Slash
  THEN StripTrailingSlashes(SubSeq(p, 1, Len(p) - 1)) ELSE p

Base(p) ==
  IF Len(p) = 0 THEN <<Dot>>
  ELSE LET q == StripTrailingSlashes(p) IN
    IF Len(q) = 0 THEN <<Slash>>
    ELSE LET parts == Split(q, Slash) IN parts[Len(parts)]

\* filepath.Join of a directory and a name
Join(dir, name) == Clean(dir \o <<Slash>> \o name)

RECURSIVE CommonPrefixLen(_, _)
CommonPrefixLen(a, b) ==
  IF Len(a) = 0 \/ Len(b) = 0 \/ Head(a) # Head(b) THEN 0
  ELSE 1 + CommonPrefixLen(Tail(a), Tail(b))

\* filepath.Rel(basepath, targpath).  [ok |-> FALSE] is the error return:
\* one path rooted and the other not, or a base that still starts with ".."
\* where the two paths part.
Rel(basepath, targpath) ==
  LET base == Clean(basepath)
      targ == Clean(targpath)
      be   == Elems(basepath)
      te   == Elems(targpath)
      n    == CommonPrefixLen(be, te)
      br   == SubSeq(be, n + 1, Len(be))
      tr   == SubSeq(te, n + 1, Len(te))
  IN  IF targ = base THEN [ok |-> TRUE, p |-> <<Dot>>]
      ELSE IF IsAbs(base) # IsAbs(targ) THEN [ok |-> FALSE, p |-> <<>>]
      ELSE IF Len(br) > 0 /\ br[1] = DotDot THEN [ok |-> FALSE, p |-> <<>>]
      ELSE [ok |-> TRUE,
            p  |-> JoinWith([i \in 1..Len(br) |-> DotDot] \o tr, Slash)]

(***************************************************************************)
(* Configuration: the default extension allow-list.                        *)
(***************************************************************************)
getDefaultConfig ==
  << <<".", "j", "p", "g">>, <<".", "J", "P", "G">>, <<".", "A", "R", "W">>,
     <<".", "m", "p", "4">>, <<".", "M", "P", "4">> >>

\* mutant of isExtensionAllowed: the loop returns after its first turn
isExtensionAllowedFirstOnly(path, extensions) ==
  Len(extensions) > 0 /\ HasSuffix(path, extensions[1])

\* true when the full string ends with one of the configured suffixes
isExtensionAllowed(path, extensions) ==
  \E i \in 1..Len(extensions) : HasSuffix(path, extensions[i])

(***************************************************************************)
(* The strings of the model's file trees and listings.                     *)
(***************************************************************************)
JPG == <<".", "j", "p", "g">>
TXT == <<".", "t", "x", "t">>
NameA == <<"a">> \o JPG
NameB == <<"b">> \o JPG
NameT == <<"a">> \o TXT
DirD == <<"D">>

LocalRoot == <<"/", "l">>
RemoteRoot == <<"/", "r">>
\* a remote root the remote shell expands before find runs
TildeRoot == <<"~", "/", "p">>
RemoteHome == <<"/", "h">>

Sizes == {1, 2}

(***************************************************************************)
(* The inventory store, composite variant: table photos,                   *)
(* PRIMARY KEY (filename, size).  A table is the set of its rows.          *)
(***************************************************************************)
\* the SQL NULL of a TEXT column (no string of the model is this value)
NULL == <<"NULL">>

initDB == {}

\* mutant of SameKey: PRIMARY KEY (filename), the size is no part of the key
SameKeyNameOnly(r, filename, size) == r.filename = filename

\* the conflict target of the upserts: PRIMARY KEY (filename, size)
SameKey(r, filename, size) == r.filename = filename /\ r.size = size

\* mutant of createIfNotExists: DROP TABLE IF EXISTS, then CREATE TABLE
createAfterDrop(db) == {}

\* initDB on the database file of an earlier run: CREATE TABLE IF NOT
\* EXISTS leaves the table that exists, rows included, as it is
createIfNotExists(db) == db

\* mutant of upsertLocal: on conflict the new path is appended to the
\* stored one (SET local_path = local_path || excluded.local_path)
upsertLocalAppend(db, filename, size, path) ==
  IF \E r \in db : SameKey(r, filename, size)
  THEN {IF SameKey(r, filename, size)
        THEN [r EXCEPT !.local_path = IF @ = NULL THEN path ELSE @ \o path]
        ELSE r : r \in db}
  ELSE db \cup {[filename |-> filename, size |-> size,
                 local_path |-> path, remote_path |-> NULL]}

\* mutant of upsertRemote: two statements, INSERT OR IGNORE of the key and
\* then UPDATE of the path, of which the call has run the first
upsertRemoteKeyFirst(db, filename, size, path) ==
  IF \E r \in db : SameKey(r, filename, size)
  THEN {IF SameKey(r, filename, size) THEN [r EXCEPT !.remote_path = path]
        ELSE r : r \in db}
  ELSE db \cup {[filename |-> filename, size |-> size,
                 local_path |-> NULL, remote_path |-> NULL]}

\* mutant of upsertLocal: ON CONFLICT(filename, size) DO NOTHING, the
\* record keeps the path it has
upsertLocalKeepFirst(db, filename, size, path) ==
  IF \E r \in db : SameKey(r, filename, size)
  THEN db
  ELSE db \cup {[filename |-> filename, size |-> size,
                 local_path |-> path, remote_path |-> NULL]}

\* mutant of upsertLocal: INSERT OR REPLACE, the conflicting row is
\* replaced whole and loses its remote_path
upsertLocalReplace(db, filename, size, path) ==
  {r \in db : ~SameKey(r, filename, size)}
    \cup {[filename |-> filename, size |-> size,
           local_path |-> path, remote_path |-> NULL]}

\* INSERT INTO photos (filename, size, local_path) VALUES (?, ?, ?)
\* ON CONFLICT(filename, size) DO UPDATE SET local_path=excluded.local_path
upsertLocal(db, filename, size, path) ==
  IF \E r \in db : SameKey(r, filename, size)
  THEN {IF SameKey(r, filename, size) THEN [r EXCEPT !.local_path = path]
        ELSE r : r \in db}
  ELSE db \cup {[filename |-> filename, size |-> size,
                 local_path |-> path, remote_path |-> NULL]}

\* mutant of upsertRemote: INSERT OR REPLACE, the conflicting row is
\* replaced whole and loses its local_path
upsertRemoteReplace(db, filename, size, path) ==
  {r \in db : ~SameKey(r, filename, size)}
    \cup {[filename |-> filename, size |-> size,
           local_path |-> NULL, remote_path |-> path]}

\* INSERT INTO photos (filename, size, remote_path) VALUES (?, ?, ?)
\* ON CONFLICT(filename, size) DO UPDATE SET remote_path=excluded.remote_path
upsertRemote(db, filename, size, path) ==
  IF \E r \in db : SameKey(r, filename, size)
  THEN {IF SameKey(r, filename, size) THEN [r EXCEPT !.remote_path = path]
        ELSE r : r \in db}
  ELSE db \cup {[filename |-> filename, size |-> size,
                 local_path |-> NULL, remote_path |-> path]}

(***************************************************************************)
(* The inventory store, relative-path variant: table files,                *)
(* rel_path PRIMARY KEY, on_local / on_remote BOOLEAN stored as 0 / 1.     *)
(***************************************************************************)
initDBRel == {}

\* INSERT INTO files (rel_path, on_local, on_remote) VALUES (?, 1, 0)
\* ON CONFLICT(rel_path) DO UPDATE SET on_local=1
upsertLocalRel(db, relPath) ==
  IF \E r \in db : r.rel_path = relPath
  THEN {IF r.rel_path = relPath THEN [r EXCEPT !.on_local = 1] ELSE r : r \in db}
  ELSE db \cup {[rel_path |-> relPath, on_local |-> 1, on_remote |-> 0]}

\* INSERT INTO files (rel_path, on_local, on_remote) VALUES (?, 0, 1)
\* ON CONFLICT(rel_path) DO UPDATE SET on_remote=1
upsertRemoteRel(db, relPath) ==
  IF \E r \in db : r.rel_path = relPath
  THEN {IF r.rel_path = relPath THEN [r EXCEPT !.on_remote = 1] ELSE r : r \in db}
  ELSE db \cup {[rel_path |-> relPath, on_local |-> 0, on_remote |-> 1]}

(***************************************************************************)
(* The report queries.  A query result is the sequence of the rows the     *)
(* cursor yields; SQL leaves their order open, the model fixes one.        *)
(***************************************************************************)
RECURSIVE SetToSeq(_)
SetToSeq(S) ==
  IF S = {} THEN <<>>
  ELSE LET x == CHOOSE y \in S : TRUE IN <<x>> \o SetToSeq(S \ {x})

\* mutant of MissingQuery: the condition on remote_path is missing
MissingQueryAnyRemote(db) ==
  SetToSeq({r \in db : r.local_path # NULL /\ r.local_path # Empty})

\* SELECT local_path FROM photos WHERE local_path IS NOT NULL
\*   AND local_path != '' AND (remote_path IS NULL OR remote_path = '')
MissingQuery(db) ==
  SetToSeq({r \in db : /\ r.local_path # NULL
                       /\ r.local_path # Empty
                       /\ (r.remote_path = NULL \/ r.remote_path = Empty)})

\* mutant of WrongSizeQuery: the condition on p1.remote_path is missing
WrongSizeQueryAnyLocal(db) ==
  SetToSeq({pr \in db \X db :
              /\ pr[1].filename = pr[2].filename
              /\ pr[1].local_path # NULL
              /\ pr[1].local_path # Empty
              /\ pr[2].remote_path # NULL
              /\ pr[2].remote_path # Empty})

\* SELECT p1.local_path, p1.size, p2.remote_path, p2.size
\* FROM photos p1 JOIN photos p2 ON p1.filename = p2.filename
\* WHERE p1.local_path IS NOT NULL AND p1.local_path != ''
\*   AND (p1.remote_path IS NULL OR p1.remote_path = '')
\*   AND p2.remote_path IS NOT NULL AND p2.remote_path != ''
WrongSizeQuery(db) ==
  SetToSeq({pr \in db \X db :
              /\ pr[1].filename = pr[2].filename
              /\ pr[1].local_path # NULL
              /\ pr[1].local_path # Empty
              /\ (pr[1].remote_path = NULL \/ pr[1].remote_path = Empty)
              /\ pr[2].remote_path # NULL
              /\ pr[2].remote_path # Empty})

\* SELECT rel_path FROM files WHERE on_local = 1 AND on_remote = 0
MissingQueryRel(db) ==
  SetToSeq({r \in db : r.on_local = 1 /\ r.on_remote = 0})

(***************************************************************************)
(* Report formatting: filepath.Dir and sort.Strings.                       *)
(***************************************************************************)
\* filepath.Dir: the path up to and including its last slash, cleaned
LastSlash(p) ==
  LET I == {i \in 1..Len(p) : p[i] = Slash} IN
  IF I = {} THEN 0 ELSE CHOOSE i \in I : \A j \in I : j <= i

Dir(p) == Clean(SubSeq(p, 1, LastSlash(p)))

\* the byte of a character of the model's alphabet
Ord(c) ==
  CASE c = Tab -> 9 [] c = "+" -> 43 [] c = "-" -> 45 [] c = "." -> 46
    [] c = "/" -> 47 [] c \in Digits -> 48 + DigitVal(c)
    [] c = "A" -> 65 [] c = "D" -> 68 [] c = "G" -> 71 [] c = "J" -> 74
    [] c = "M" -> 77 [] c = "P" -> 80 [] c = "R" -> 82 [] c = "W" -> 87
    [] c = "a" -> 97 [] c = "b" -> 98 [] c = "g" -> 103 [] c = "h" -> 104
    [] c = "j" -> 106 [] c = "l" -> 108 [] c = "m" -> 109 [] c = "p" -> 112
    [] c = "r" -> 114 [] c = "t" -> 116 [] c = "x" -> 120 [] c = "~" -> 126

\* s < t in the byte-wise order of Go strings
RECURSIVE StrLess(_, _)
StrLess(s, t) ==
  IF Len(t) = 0 THEN FALSE
  ELSE IF Len(s) = 0 THEN TRUE
  ELSE IF Head(s) = Head(t) THEN StrLess(Tail(s), Tail(t))
  ELSE Ord(Head(s)) < Ord(Head(t))

\* mutant of SortStrings: the keys in descending order
RECURSIVE SortStringsDescending(_)
SortStringsDescending(S) ==
  IF S = {} THEN <<>>
  ELSE LET m == CHOOSE x \in S : \A y \in S \ {x} : StrLess(y, x)
       IN  <<m>> \o SortStringsDescending(S \ {m})

\* sort.Strings over the keys of the summary map
RECURSIVE SortStrings(_)
SortStrings(S) ==
  IF S = {} THEN <<>>
  ELSE LET m == CHOOSE x \in S : \A y \in S \ {x} : StrLess(x, y)
       IN  <<m>> \o SortStrings(S \ {m})

(***************************************************************************)
(* State.                                                                  *)
(***************************************************************************)
VARIABLES
  variant,   \* which program is installed: "composite" or "relpath"
  photos,    \* composite variant: the rows of table photos
  files,     \* relative-path variant: the rows of table files
  pc,        \* the running command: "idle", "remote" or "local"
  root,      \* -path of the running scan
  lineNo,    \* remote scan: lines the scanner has yielded so far
  count,     \* the scan's counter of processed candidates
  walkPos,   \* local scan: index of the next entry WalkDir visits
  exit,      \* how the last command ended: "none", "ok", "fatal"
  out,       \* what the last command printed
  listing,   \* remote scan: the lines of the listing when fixed in advance
  last,      \* history: the last direct call of a store function
  prov,      \* history: which candidates were merged into which files row
  conv,      \* the callers of the convergence and concurrency experiments
  stderr,    \* remote scan: whether ssh wrote to its standard error
  logged,    \* error lines the running command wrote with log.Printf
  hist       \* history of the running scan: the store before it and the
             \* candidates it merged, in order

vars == <<variant, photos, files, pc, root, lineNo, count, walkPos, exit,
          out, listing, last, prov, conv, stderr, logged, hist>>

Variants == {"composite", "relpath"}

NoOut == [kind |-> "none", rows |-> <<>>, total |-> 0]
NoCall == [fn |-> "none", args |-> <<>>, err |-> "nil", twice |-> FALSE]
NoConv == [on |-> FALSE]
NoHist == [on |-> FALSE]

\* the state after installation: an empty store, nothing running
Start ==
  /\ variant \in Variants
  /\ photos = initDB
  /\ files = initDBRel
  /\ pc = "idle"
  /\ root = Empty
  /\ lineNo = 0
  /\ count = 0
  /\ walkPos = 0
  /\ exit = "none"
  /\ out = NoOut
  /\ listing = <<>>
  /\ last = NoCall
  /\ prov = {}
  /\ stderr = FALSE
  /\ logged = 0

Init == Start /\ conv = NoConv /\ hist = NoHist

scanVars == <<pc, root, lineNo, count, walkPos, exit, listing, prov, conv,
              stderr, logged, hist>>

(***************************************************************************)
(* Direct calls of the store functions, as the tests make them.            *)
(***************************************************************************)
ApiKeys == {<<NameA, 1>>, <<NameA, 2>>, <<NameB, 1>>}
ApiLocalPaths == {Empty, LocalRoot \o <<Slash>> \o NameA}
ApiRemotePaths == {Empty, RemoteRoot \o <<Slash>> \o NameA}
ApiRelPaths == {NameA, NameB, DirD \o <<Slash>> \o NameA}

\* the record of a direct call; twice: it repeats the successful call
\* made just before it, with identical inputs
Called(fn, args, fails) ==
  [fn    |-> fn,
   args  |-> args,
   err   |-> IF fails THEN "storage" ELSE "nil",
   twice |-> ~fails /\ last.fn = fn /\ last.args = args /\ last.err = "nil"]

\* db.Exec either runs the statement or returns a storage error and
\* leaves the table as it was
CallUpsertLocal(filename, size, path, fails) ==
  /\ variant = "composite" /\ pc = "idle"
  /\ photos' = IF fails THEN photos ELSE upsertLocal(photos, filename, size, path)
  /\ last' = Called("upsertLocal", <<filename, size, path>>, fails)
  /\ out' = NoOut
  /\ UNCHANGED <<variant, files, scanVars>>

CallUpsertRemote(filename, size, path, fails) ==
  /\ variant = "composite" /\ pc = "idle"
  /\ photos' = IF fails THEN photos ELSE upsertRemote(photos, filename, size, path)
  /\ last' = Called("upsertRemote", <<filename, size, path>>, fails)
  /\ out' = NoOut
  /\ UNCHANGED <<variant, files, scanVars>>

CallUpsertLocalRel(relPath, fails) ==
  /\ variant = "relpath" /\ pc = "idle"
  /\ files' = IF fails THEN files ELSE upsertLocalRel(files, relPath)
  /\ last' = Called("upsertLocal", <<relPath>>, fails)
  /\ out' = NoOut
  /\ UNCHANGED <<variant, photos, scanVars>>

CallUpsertRemoteRel(relPath, fails) ==
  /\ variant = "relpath" /\ pc = "idle"
  /\ files' = IF fails THEN files ELSE upsertRemoteRel(files, relPath)
  /\ last' = Called("upsertRemote", <<relPath>>, fails)
  /\ out' = NoOut
  /\ UNCHANGED <<variant, photos, scanVars>>

(***************************************************************************)
(* runReport.                                                              *)
(***************************************************************************)
ReportModes == {"verbose", "grouped", "wrong_size"}

\* the verbose branch: one line per row, then the total
VerboseReport(db) ==
  LET rows == MissingQuery(db) IN
  [kind  |-> "missing",
   rows  |-> [i \in 1..Len(rows) |-> rows[i].local_path],
   total |-> Len(rows)]

\* the default branch: the rows counted by filepath.Dir, directories sorted
GroupedReport(db) ==
  LET rows == MissingQuery(db)
      summary(d) == Cardinality({i \in 1..Len(rows) : Dir(rows[i].local_path) = d})
      keys == SortStrings({Dir(rows[i].local_path) : i \in 1..Len(rows)})
  IN  [kind  |-> "grouped",
       rows  |-> [i \in 1..Len(keys) |-> <<keys[i], summary(keys[i])>>],
       total |-> Len(rows)]

\* the -wrong_size branch: one pair per row of the join, then the total
WrongSizeReport(db) ==
  LET rows == WrongSizeQuery(db) IN
  [kind  |-> "wrong_size",
   rows  |-> [i \in 1..Len(rows) |->
                <<rows[i][1].local_path, rows[i][1].size,
                  rows[i][2].remote_path, rows[i][2].size>>],
   total |-> Len(rows)]

\* runReport of the relative-path variant: the flat list only
RelReport(db) ==
  LET rows == MissingQueryRel(db) IN
  [kind  |-> "missing",
   rows  |-> [i \in 1..Len(rows) |-> rows[i].rel_path],
   total |-> Len(rows)]

runReport(mode) ==
  /\ variant = "composite" /\ pc = "idle"
  /\ out' = CASE mode = "wrong_size" -> WrongSizeReport(photos)
              [] mode = "verbose"    -> VerboseReport(photos)
              [] mode = "grouped"    -> GroupedReport(photos)
  /\ exit' = "ok"
  /\ last' = NoCall
  /\ stderr' = FALSE
  /\ logged' = 0
  /\ photos' = createIfNotExists(photos)
  /\ files' = createIfNotExists(files)
  /\ UNCHANGED <<variant, pc, root, lineNo, count, walkPos,
                 listing, prov, conv, hist>>

runReportRel ==
  /\ variant = "relpath" /\ pc = "idle"
  /\ out' = RelReport(files)
  /\ exit' = "ok"
  /\ last' = NoCall
  /\ stderr' = FALSE
  /\ logged' = 0
  /\ photos' = createIfNotExists(photos)
  /\ files' = createIfNotExists(files)
  /\ UNCHANGED <<variant, pc, root, lineNo, count, walkPos,
                 listing, prov, conv, hist>>

(***************************************************************************)
(* Spec: the store functions and the reports called directly.              *)
(***************************************************************************)
Next ==
  \/ \E k \in ApiKeys, p \in ApiLocalPaths, f \in BOOLEAN :
       CallUpsertLocal(k[1], k[2], p, f)
  \/ \E k \in ApiKeys, p \in ApiRemotePaths, f \in BOOLEAN :
       CallUpsertRemote(k[1], k[2], p, f)
  \/ \E p \in ApiRelPaths, f \in BOOLEAN : CallUpsertLocalRel(p, f)
  \/ \E p \in ApiRelPaths, f \in BOOLEAN : CallUpsertRemoteRel(p, f)
  \/ \E m \in ReportModes : runReport(m)
  \/ runReportRel

Spec == Init /\ [][Next]_vars

(***************************************************************************)
(* The observation flags of a record, as the tests and the queries read    *)
(* them.                                                                   *)
(***************************************************************************)
\* composite variant: a side is observed when its path is neither NULL nor ''
SeenLocal(r) == r.local_path # NULL /\ r.local_path # Empty
SeenRemote(r) == r.remote_path # NULL /\ r.remote_path # Empty

\* relative-path variant: the stored booleans
SeenLocalRel(r) == r.on_local = 1
SeenRemoteRel(r) == r.on_remote = 1

RowsAt(db, filename, size) == {r \in db : SameKey(r, filename, size)}
RowsAtRel(db, relPath) == {r \in db : r.rel_path = relPath}

(***************************************************************************)
(* C1.  Non-destructive merge.                                             *)
(***************************************************************************)
\* the local-origin field of the record at a key is after the step what it
\* was before (NULL, not seen, when the step created the record)
LocalFieldKept(filename, size) ==
  \A n \in RowsAt(photos', filename, size) :
    /\ \A o \in RowsAt(photos, filename, size) : n.local_path = o.local_path
    /\ RowsAt(photos, filename, size) = {} => n.local_path = NULL

RemoteFieldKept(filename, size) ==
  \A n \in RowsAt(photos', filename, size) :
    /\ \A o \in RowsAt(photos, filename, size) : n.remote_path = o.remote_path
    /\ RowsAt(photos, filename, size) = {} => n.remote_path = NULL

LocalFlagKept(relPath) ==
  \A n \in RowsAtRel(files', relPath) :
    /\ \A o \in RowsAtRel(files, relPath) : n.on_local = o.on_local
    /\ RowsAtRel(files, relPath) = {} => n.on_local = 0

RemoteFlagKept(relPath) ==
  \A n \in RowsAtRel(files', relPath) :
    /\ \A o \in RowsAtRel(files, relPath) : n.on_remote = o.on_remote
    /\ RowsAtRel(files, relPath) = {} => n.on_remote = 0

\* a successful direct call of fn is the step being taken
StepCalls(fn) == last'.fn = fn /\ last'.err = "nil"

\* the frame half of C1: a merge of one origin leaves the other origin's
\* field of that record as it was, in both variants
C1Frame ==
  [][/\ (variant = "composite" /\ StepCalls("upsertRemote"))
          => LocalFieldKept(last'.args[1], last'.args[2])
     /\ (variant = "composite" /\ StepCalls("upsertLocal"))
          => RemoteFieldKept(last'.args[1], last'.args[2])
     /\ (variant = "relpath" /\ StepCalls("upsertRemote"))
          => LocalFlagKept(last'.args[1])
     /\ (variant = "relpath" /\ StepCalls("upsertLocal"))
          => RemoteFlagKept(last'.args[1])]_vars

\* C1: upsertRemote leaves the record's local-origin field as it was and
\* upsertLocal its remote-origin field, in either order; a record that had
\* been merged from one origin and is now merged from the other ends
\* observed on both sides, and a record merged from the remote origin only
\* stays not seen locally.
C1NonDestructiveMerge ==
  [][/\ (variant = "composite" /\ StepCalls("upsertRemote")) =>
          /\ LocalFieldKept(last'.args[1], last'.args[2])
          /\ \A n \in RowsAt(photos', last'.args[1], last'.args[2]) :
               IF \E o \in RowsAt(photos, last'.args[1], last'.args[2]) :
                    o.local_path # NULL
               THEN SeenLocal(n) /\ SeenRemote(n)
               ELSE ~SeenLocal(n)
     /\ (variant = "composite" /\ StepCalls("upsertLocal")) =>
          /\ RemoteFieldKept(last'.args[1], last'.args[2])
          /\ \A n \in RowsAt(photos', last'.args[1], last'.args[2]) :
               IF \E o \in RowsAt(photos, last'.args[1], last'.args[2]) :
                    o.remote_path # NULL
               THEN SeenLocal(n) /\ SeenRemote(n)
               ELSE ~SeenRemote(n)
     /\ (variant = "relpath" /\ StepCalls("upsertRemote")) =>
          /\ LocalFlagKept(last'.args[1])
          /\ \A n \in RowsAtRel(files', last'.args[1]) :
               IF \E o \in RowsAtRel(files, last'.args[1]) : SeenLocalRel(o)
               THEN SeenLocalRel(n) /\ SeenRemoteRel(n)
               ELSE ~SeenLocalRel(n)
     /\ (variant = "relpath" /\ StepCalls("upsertLocal")) =>
          /\ RemoteFlagKept(last'.args[1])
          /\ \A n \in RowsAtRel(files', last'.args[1]) :
               IF \E o \in RowsAtRel(files, last'.args[1]) : SeenRemoteRel(o)
               THEN SeenLocalRel(n) /\ SeenRemoteRel(n)
               ELSE ~SeenRemoteRel(n)]_vars

(***************************************************************************)
(* C3.  Idempotence.                                                       *)
(***************************************************************************)
\* C3: a call of upsertLocal (or of upsertRemote) that repeats the call made
\* just before it with identical inputs leaves the whole store as the first
\* call left it.
C3Idempotent ==
  [][last'.twice => (photos' = photos /\ files' = files)]_vars

\* the same call has just been made twice in a row on a record that holds
\* data of both origins
C3Witness ==
  /\ last.twice
  /\ \/ \E r \in photos : /\ SameKey(r, last.args[1], last.args[2])
                          /\ SeenLocal(r) /\ SeenRemote(r)
     \/ \E r \in files : /\ r.rel_path = last.args[1]
                         /\ SeenLocalRel(r) /\ SeenRemoteRel(r)

(***************************************************************************)
(* C5.  The missing-from-remote query.                                     *)
(***************************************************************************)
Occurs(seq, x) == Cardinality({i \in 1..Len(seq) : seq[i] = x})

LocalOnly(db) == {r \in db : SeenLocal(r) /\ ~SeenRemote(r)}
LocalOnlyRel(db) == {r \in db : SeenLocalRel(r) /\ ~SeenRemoteRel(r)}

\* C5: the flat missing-from-remote report lists exactly the records seen
\* locally and not seen remotely, one line per record, and the total of the
\* flat and of the grouped report is the number of those records.
C5MissingQuery ==
  /\ (variant = "composite" /\ out.kind = "missing") =>
       /\ out.total = Cardinality(LocalOnly(photos))
       /\ Len(out.rows) = out.total
       /\ \A i \in 1..Len(out.rows) :
            \E r \in LocalOnly(photos) : out.rows[i] = r.local_path
       /\ \A r \in LocalOnly(photos) :
            Occurs(out.rows, r.local_path)
              = Cardinality({q \in LocalOnly(photos) : q.local_path = r.local_path})
  /\ (variant = "composite" /\ out.kind = "grouped") =>
       out.total = Cardinality(LocalOnly(photos))
  /\ (variant = "relpath" /\ out.kind = "missing") =>
       /\ out.total = Cardinality(LocalOnlyRel(files))
       /\ Len(out.rows) = out.total
       /\ \A i \in 1..Len(out.rows) :
            \E r \in LocalOnlyRel(files) : out.rows[i] = r.rel_path
       /\ \A r \in LocalOnlyRel(files) : Occurs(out.rows, r.rel_path) = 1

\* the store holds A (local only), B (remote only) and C (both), and the
\* report printed exactly A with a total of 1
C5Witness ==
  /\ variant = "composite" /\ out.kind = "missing"
  /\ \E A, B, C \in photos :
       /\ photos = {A, B, C}
       /\ SeenLocal(A) /\ ~SeenRemote(A)
       /\ ~SeenLocal(B) /\ SeenRemote(B)
       /\ SeenLocal(C) /\ SeenRemote(C)
       /\ out.rows = <<A.local_path>> /\ out.total = 1

(***************************************************************************)
(* C6.  The size-mismatch query.                                           *)
(***************************************************************************)
MismatchTuple(pr) ==
  <<pr[1].local_path, pr[1].size, pr[2].remote_path, pr[2].size>>

\* the pairs the report must hold: sets of pairs of rows of the table
ReportsPairs(P) ==
  /\ out.total = Cardinality(P)
  /\ Len(out.rows) = out.total
  /\ \A i \in 1..Len(out.rows) : \E pr \in P : out.rows[i] = MismatchTuple(pr)
  /\ \A pr \in P :
       Occurs(out.rows, MismatchTuple(pr))
         = Cardinality({q \in P : MismatchTuple(q) = MismatchTuple(pr)})

\* C6 as claimed: the size-mismatch report holds exactly the pairs (p1, p2)
\* of records with one filename where p1 is local-only and p2 is a
\* different-sized record that is remote-only.
C6Original ==
  (variant = "composite" /\ out.kind = "wrong_size") =>
    ReportsPairs({pr \in photos \X photos :
                    /\ pr[1].filename = pr[2].filename
                    /\ SeenLocal(pr[1]) /\ ~SeenRemote(pr[1])
                    /\ pr[2].size # pr[1].size
                    /\ SeenRemote(pr[2]) /\ ~SeenLocal(pr[2])})

\* C6 as amended: the size-mismatch report holds exactly the pairs (p1, p2)
\* of records with one filename where p1 is local-only and p2 is seen
\* remotely, whether or not p2 is also seen locally; the two records of a
\* pair always differ in size.
C6WrongSizeQuery ==
  (variant = "composite" /\ out.kind = "wrong_size") =>
    LET P == {pr \in photos \X photos :
                /\ pr[1].filename = pr[2].filename
                /\ SeenLocal(pr[1]) /\ ~SeenRemote(pr[1])
                /\ SeenRemote(pr[2])}
    IN  /\ ReportsPairs(P)
        /\ \A pr \in P : pr[1].size # pr[2].size

\* local a.jpg of size 1 only, remote a.jpg of size 2 only: one pair
C6Witness ==
  /\ variant = "composite" /\ out.kind = "wrong_size"
  /\ \E A, B \in photos :
       /\ photos = {A, B}
       /\ A.filename = B.filename /\ A.size = 1 /\ B.size = 2
       /\ SeenLocal(A) /\ ~SeenRemote(A)
       /\ ~SeenLocal(B) /\ SeenRemote(B)
       /\ out.rows = << <<A.local_path, 1, B.remote_path, 2>> >>
       /\ out.total = 1

(***************************************************************************)
(* SpecConv: merge_local(id, L) and merge_remote(id, R) called any number  *)
(* of times in any order on one identity, from any earlier record of it.   *)
(***************************************************************************)
ConvLocalPaths == ApiLocalPaths \cup {LocalRoot \o <<Slash>> \o DirD \o <<Slash>> \o NameA}
ConvRemotePaths == ApiRemotePaths \cup {RemoteRoot \o <<Slash>> \o DirD \o <<Slash>> \o NameA}

\* the records an earlier run can have left at the key (none, or one)
PriorPhotos(k) ==
  {{}} \cup
  {{[filename |-> k[1], size |-> k[2], local_path |-> pl, remote_path |-> pr]} :
     <<pl, pr>> \in ((ConvLocalPaths \cup {NULL}) \X (ConvRemotePaths \cup {NULL}))
                      \ {<<NULL, NULL>>}}

PriorFiles(p) ==
  {{}} \cup
  {{[rel_path |-> p, on_local |-> f[1], on_remote |-> f[2]]} :
     f \in {<<1, 0>>, <<0, 1>>, <<1, 1>>}}

InitConv ==
  /\ variant \in Variants
  /\ pc = "idle" /\ root = Empty /\ lineNo = 0 /\ count = 0 /\ walkPos = 0
  /\ exit = "none" /\ out = NoOut /\ listing = <<>> /\ last = NoCall
  /\ prov = {} /\ stderr = FALSE /\ logged = 0 /\ hist = NoHist
  /\ \/ /\ variant = "composite"
        /\ files = initDBRel
        /\ \E k \in ApiKeys, L \in ConvLocalPaths, R \in ConvRemotePaths :
             /\ conv = [on |-> TRUE, id |-> k, L |-> L, R |-> R, nL |-> 0, nR |-> 0]
             /\ photos \in PriorPhotos(k)
     \/ /\ variant = "relpath"
        /\ photos = initDB
        /\ \E p \in ApiRelPaths :
             /\ conv = [on |-> TRUE, id |-> p, L |-> Empty, R |-> Empty,
                        nL |-> 0, nR |-> 0]
             /\ files \in PriorFiles(p)

ConvMergeLocal ==
  /\ conv.on /\ conv.nL < MaxCalls
  /\ IF variant = "composite"
     THEN /\ photos' = upsertLocal(photos, conv.id[1], conv.id[2], conv.L)
          /\ files' = files
     ELSE /\ files' = upsertLocalRel(files, conv.id)
          /\ photos' = photos
  /\ conv' = [conv EXCEPT !.nL = @ + 1]
  /\ UNCHANGED <<variant, pc, root, lineNo, count, walkPos, exit, out,
                 listing, last, prov, stderr, logged, hist>>

ConvMergeRemote ==
  /\ conv.on /\ conv.nR < MaxCalls
  /\ IF variant = "composite"
     THEN /\ photos' = upsertRemote(photos, conv.id[1], conv.id[2], conv.R)
          /\ files' = files
     ELSE /\ files' = upsertRemoteRel(files, conv.id)
          /\ photos' = photos
  /\ conv' = [conv EXCEPT !.nR = @ + 1]
  /\ UNCHANGED <<variant, pc, root, lineNo, count, walkPos, exit, out,
                 listing, last, prov, stderr, logged, hist>>

NextConv == ConvMergeLocal \/ ConvMergeRemote

SpecConv == InitConv /\ [][NextConv]_vars

(***************************************************************************)
(* C4.  Convergence.                                                       *)
(***************************************************************************)
\* C4: once merge_local(id, L) and merge_remote(id, R) have each been
\* called at least once, the record of id is the one record that (id, L, R)
\* determine, however many calls were made and in whatever order.
C4Convergence ==
  (conv.on /\ conv.nL >= 1 /\ conv.nR >= 1) =>
    IF variant = "composite"
    THEN photos = {[filename |-> conv.id[1], size |-> conv.id[2],
                    local_path |-> conv.L, remote_path |-> conv.R]}
    ELSE files = {[rel_path |-> conv.id, on_local |-> 1, on_remote |-> 1]}

\* each call has been made more than once and the record holds the two
\* paths
C4Witness ==
  /\ conv.on /\ conv.nL > 1 /\ conv.nR > 1
  /\ variant = "composite"
  /\ \E r \in photos : r.local_path = conv.L /\ r.remote_path = conv.R
                       /\ SeenLocal(r) /\ SeenRemote(r)

(***************************************************************************)
(* runAdd, remote scan.  The listing is what ssh ... find wrote to its     *)
(* standard output, cut into lines by bufio.Scanner.                       *)
(***************************************************************************)
Line(name, size, path) == name \o <<Tab>> \o size \o <<Tab>> \o path

\* the files find can report: base name, byte size, the size as printed,
\* and the path.  The last one is the third line find prints for a file
\* whose name holds a newline followed by "a.jpg", a tab, "1" and a tab.
Candidates ==
  {[name |-> NameA, size |-> 1, text |-> <<"1">>,
    path |-> RemoteRoot \o <<Slash>> \o NameA],
   [name |-> NameA, size |-> 1, text |-> <<"1">>,
    path |-> RemoteRoot \o <<Slash>> \o DirD \o <<Slash>> \o NameA],
   [name |-> NameA, size |-> 2, text |-> <<"2">>,
    path |-> RemoteRoot \o <<Slash>> \o NameA],
   [name |-> NameB, size |-> 1, text |-> <<"1">>,
    path |-> RemoteRoot \o <<Slash>> \o NameB],
   [name |-> NameT, size |-> 1, text |-> <<"1">>,
    path |-> RemoteRoot \o <<Slash>> \o NameT],
   [name |-> NameA, size |-> 1, text |-> <<"1">>, path |-> Empty]}

CandLine(c) == Line(c.name, c.text, c.path)

\* lines the scanner yields that are no report of a file: two fields only,
\* and a size that is no number
MalformedLines ==
  {NameA \o <<Tab>> \o RemoteRoot \o <<Slash>> \o NameA,
   Line(NameA, <<"x">>, RemoteRoot \o <<Slash>> \o NameA)}

Lines == {CandLine(c) : c \in Candidates} \cup MalformedLines

RemoteRels == {NameA, DirD \o <<Slash>> \o NameA, NameT}
RemoteRoots == {RemoteRoot, TildeRoot}

\* what the remote shell makes of the -path argument before find runs:
\* a leading ~ is the remote home directory
Expand(path) ==
  IF Len(path) > 0 /\ path[1] = "~" THEN RemoteHome \o Tail(path) ELSE path

Fatal(e) == [kind |-> "fatal", rows |-> <<e>>, total |-> 0]
Added(n) == [kind |-> "added", rows |-> <<>>, total |-> n]

\* the history of a scan that begins, and of one that has merged cand
Begin(h) ==
  IF h.on THEN [on |-> TRUE, photos |-> photos, files |-> files, acc |-> <<>>]
  ELSE h

Merged(h, cand) == IF h.on THEN [h EXCEPT !.acc = Append(@, cand)] ELSE h

\* sshCmd.Run() has returned: with an error (failed: ssh could not be run
\* or exited non-zero) and runAdd ends in log.Fatalf, or the scan of its
\* output begins.  errText: ssh wrote to its standard error, which is
\* captured and read on the error path only.
SshReturned(path, failed, errText) ==
  /\ last' = NoCall
  /\ stderr' = errText
  /\ logged' = 0
  /\ IF failed
     THEN /\ exit' = "fatal"
          /\ out' = Fatal([op |-> "ssh", path |-> path])
          /\ pc' = "idle"
          /\ UNCHANGED <<root, lineNo, count, hist>>
     ELSE /\ pc' = "remote"
          /\ root' = path
          /\ lineNo' = 0
          /\ count' = 0
          /\ exit' = "none"
          /\ out' = NoOut
          /\ hist' = Begin(hist)
  /\ photos' = createIfNotExists(photos)
  /\ files' = createIfNotExists(files)
  /\ UNCHANGED <<variant, walkPos, listing, prov, conv>>

\* runAdd with -remote, up to the scanner, with an ssh that ends
StartRemote(path, failed, errText) ==
  /\ pc = "idle"
  /\ SshReturned(path, failed, errText)

\* one turn of the loop over the lines, composite variant
RemoteLine(line, fails) ==
  LET parts == Split(line, Tab)
      size  == ParseInt(parts[2])
  IN
  /\ variant = "composite" /\ pc = "remote"
  /\ lineNo' = lineNo + 1
  /\ IF Len(parts) # 3 THEN UNCHANGED <<photos, count, logged, hist>>
     ELSE IF ~size.ok THEN UNCHANGED <<photos, count, logged, hist>>
     ELSE IF ~isExtensionAllowed(parts[1], getDefaultConfig)
       THEN UNCHANGED <<photos, count, logged, hist>>
     ELSE IF fails
       THEN /\ logged' = logged + 1
            /\ count' = count + 1
            /\ UNCHANGED <<photos, hist>>
     ELSE /\ photos' = upsertRemote(photos, parts[1], size.v, parts[3])
          /\ hist' = Merged(hist, [origin |-> "remote", name |-> parts[1],
                                   size |-> size.v, path |-> parts[3]])
          /\ count' = count + 1
          /\ logged' = logged
  /\ UNCHANGED <<variant, files, pc, root, walkPos, exit, out, listing, last,
                 prov, conv, stderr>>

\* one turn of the loop over the lines, relative-path variant; the line is
\* the path find printed for the file at rel below the expanded root
RemoteLineRel(rel, fails) ==
  LET fullPath == Expand(root) \o <<Slash>> \o rel
      r        == Rel(root, fullPath)
      relPath  == IF r.ok THEN r.p ELSE Base(fullPath)
  IN
  /\ variant = "relpath" /\ pc = "remote"
  /\ lineNo' = lineNo + 1
  /\ IF ~isExtensionAllowed(fullPath, getDefaultConfig)
     THEN UNCHANGED <<files, count, prov, logged, hist>>
     ELSE IF fails
       THEN /\ logged' = logged + 1
            /\ count' = count + 1
            /\ UNCHANGED <<files, prov, hist>>
     ELSE /\ files' = upsertRemoteRel(files, relPath)
          /\ prov' = prov \cup {[key |-> relPath, origin |-> "remote",
                                  rel |-> rel]}
          /\ hist' = Merged(hist, [origin |-> "remote", key |-> relPath])
          /\ count' = count + 1
          /\ logged' = logged
  /\ UNCHANGED <<variant, photos, pc, root, walkPos, exit, out, listing, last,
                 conv, stderr>>

\* the scanner is at the end of the output: tx.Commit() and the final
\* count; runAdd returns and its scanner and counter are gone
RemoteEOF ==
  /\ pc = "remote"
  /\ listing # <<>> => lineNo = Len(listing)
  /\ pc' = "idle"
  /\ exit' = "ok"
  /\ out' = Added(count)
  /\ lineNo' = 0
  /\ count' = 0
  /\ UNCHANGED <<variant, photos, files, root, walkPos,
                 listing, last, prov, conv, stderr, logged, hist>>

(***************************************************************************)
(* runAdd, local scan.  filepath.WalkDir visits the root, then the entries *)
(* of each directory in the order of their names.  Which entries exist,    *)
(* how large the files are and which operations fail is decided by the     *)
(* file system when the walk gets there.                                   *)
(***************************************************************************)
\* every entry a tree can hold, in the order of the walk, by its elements
\* below the root
LocalUniverse ==
  << [rel |-> <<>>,            isDir |-> TRUE],
     [rel |-> <<DirD>>,        isDir |-> TRUE],
     [rel |-> <<DirD, NameA>>, isDir |-> FALSE],
     [rel |-> <<NameA>>,       isDir |-> FALSE],
     [rel |-> <<NameT>>,       isDir |-> FALSE],
     [rel |-> <<NameB>>,       isDir |-> FALSE] >>

\* the path WalkDir hands to the callback: the root as given, and
\* filepath.Join(directory, name) below it
RECURSIVE WalkPath(_, _)
WalkPath(dir, rel) ==
  IF Len(rel) = 0 THEN dir ELSE WalkPath(Join(dir, Head(rel)), Tail(rel))

IsPrefix(a, b) == Len(a) <= Len(b) /\ SubSeq(b, 1, Len(a)) = a

\* the position of the walk after the entry at i without its subtree
RECURSIVE SkipSubtree(_, _)
SkipSubtree(i, j) ==
  IF j <= Len(LocalUniverse) /\ IsPrefix(LocalUniverse[i].rel, LocalUniverse[j].rel)
  THEN SkipSubtree(i, j + 1) ELSE j

\* what the file system can answer at an entry: it is not there; it is
\* there; os.Lstat of the root fails; os.ReadDir of a directory fails;
\* d.Info() of a file fails
Answers(i) ==
  IF i = 1 THEN {"ok", "lstat", "readdir"}
  ELSE IF LocalUniverse[i].isDir THEN {"absent", "ok", "readdir"}
  ELSE {"absent", "ok", "info"}

\* the working directory filepath.Abs prepends to a relative path
WorkDir == RemoteHome

\* filepath.Abs: a rooted path is cleaned, another one is joined to the
\* working directory
Abs(path) == IF IsAbs(path) THEN Clean(path) ELSE Join(WorkDir, path)

\* runAdd without -remote, up to the walk
StartLocal(path) ==
  /\ pc = "idle"
  /\ pc' = "local"
  /\ root' = path
  /\ count' = 0
  /\ walkPos' = 1
  /\ exit' = "none"
  /\ out' = NoOut
  /\ last' = NoCall
  /\ stderr' = FALSE
  /\ logged' = 0
  /\ hist' = Begin(hist)
  /\ photos' = createIfNotExists(photos)
  /\ files' = createIfNotExists(files)
  /\ UNCHANGED <<variant, lineNo, listing, prov, conv>>

\* the callback returned an error: WalkDir returns it and runAdd ends in
\* log.Fatalf
WalkAborts(e) ==
  /\ pc' = "idle"
  /\ exit' = "fatal"
  /\ out' = Fatal(e)
  /\ walkPos' = 0

WalkGoesOn(next) ==
  /\ walkPos' = next
  /\ UNCHANGED <<pc, exit, out>>

\* WalkDir at one entry, composite variant: the callback is called with
\* the entry, and again with the error when its directory cannot be read
WalkEntry(answer, size, fails) ==
  LET e    == LocalUniverse[walkPos]
      path == WalkPath(root, e.rel)
  IN
  /\ variant = "composite" /\ pc = "local"
  /\ walkPos <= Len(LocalUniverse)
  /\ answer \in Answers(walkPos)
  /\ IF answer = "absent"
       THEN WalkGoesOn(SkipSubtree(walkPos, walkPos)) /\ UNCHANGED <<photos, count, hist>>
     ELSE IF answer \in {"lstat", "readdir"}
       THEN WalkAborts([op |-> answer, path |-> path]) /\ UNCHANGED <<photos, count, hist>>
     ELSE IF e.isDir
       THEN WalkGoesOn(walkPos + 1) /\ UNCHANGED <<photos, count, hist>>
     ELSE IF ~isExtensionAllowed(path, getDefaultConfig)
       THEN WalkGoesOn(walkPos + 1) /\ UNCHANGED <<photos, count, hist>>
     ELSE IF answer = "info"
       THEN WalkAborts([op |-> "info", path |-> path]) /\ UNCHANGED <<photos, count, hist>>
     ELSE IF fails
       THEN WalkAborts([op |-> "storage", path |-> path]) /\ UNCHANGED <<photos, count, hist>>
     ELSE /\ photos' = upsertLocal(photos, Base(path), size, Abs(path))
          /\ hist' = Merged(hist, [origin |-> "local", name |-> Base(path),
                                   size |-> size, path |-> Abs(path)])
          /\ count' = count + 1
          /\ WalkGoesOn(walkPos + 1)
  /\ UNCHANGED <<variant, files, root, lineNo, listing, last, prov, conv,
                 stderr, logged>>

\* WalkDir at one entry, relative-path variant: no d.Info(), the key is
\* filepath.Rel(root, path)
WalkEntryRel(answer, fails) ==
  LET e    == LocalUniverse[walkPos]
      path == WalkPath(root, e.rel)
      r    == Rel(root, path)
  IN
  /\ variant = "relpath" /\ pc = "local"
  /\ walkPos <= Len(LocalUniverse)
  /\ answer \in Answers(walkPos) \ {"info"}
  /\ IF answer = "absent"
       THEN WalkGoesOn(SkipSubtree(walkPos, walkPos)) /\ UNCHANGED <<files, count, prov, hist>>
     ELSE IF answer \in {"lstat", "readdir"}
       THEN WalkAborts([op |-> answer, path |-> path]) /\ UNCHANGED <<files, count, prov, hist>>
     ELSE IF e.isDir
       THEN WalkGoesOn(walkPos + 1) /\ UNCHANGED <<files, count, prov, hist>>
     ELSE IF ~isExtensionAllowed(path, getDefaultConfig)
       THEN WalkGoesOn(walkPos + 1) /\ UNCHANGED <<files, count, prov, hist>>
     ELSE IF ~r.ok
       THEN WalkAborts([op |-> "rel", path |-> path]) /\ UNCHANGED <<files, count, prov, hist>>
     ELSE IF fails
       THEN WalkAborts([op |-> "storage", path |-> path]) /\ UNCHANGED <<files, count, prov, hist>>
     ELSE /\ files' = upsertLocalRel(files, r.p)
          /\ prov' = prov \cup {[key |-> r.p, origin |-> "local",
                                 rel |-> JoinWith(e.rel, Slash)]}
          /\ hist' = Merged(hist, [origin |-> "local", key |-> r.p])
          /\ count' = count + 1
          /\ WalkGoesOn(walkPos + 1)
  /\ UNCHANGED <<variant, photos, root, lineNo, listing, last, conv,
                 stderr, logged>>

\* WalkDir returned nil: the final count; runAdd returns and its counter
\* is gone
LocalEnd ==
  /\ pc = "local"
  /\ walkPos > Len(LocalUniverse)
  /\ pc' = "idle"
  /\ exit' = "ok"
  /\ out' = Added(count)
  /\ walkPos' = 0
  /\ count' = 0
  /\ UNCHANGED <<variant, photos, files, root, lineNo, listing, last,
                 prov, conv, stderr, logged, hist>>

(***************************************************************************)
(* SpecScan: the program as it is run: scans of either origin, and         *)
(* reports, one command after the other.                                   *)
(***************************************************************************)
NextScan ==
  \/ \E f, e \in BOOLEAN : variant = "composite" /\ StartRemote(RemoteRoot, f, e)
  \/ \E p \in RemoteRoots, f, e \in BOOLEAN :
        variant = "relpath" /\ StartRemote(p, f, e)
  \/ \E l \in Lines, f \in BOOLEAN : lineNo < MaxLines /\ RemoteLine(l, f)
  \/ \E r \in RemoteRels, f \in BOOLEAN : lineNo < MaxLines /\ RemoteLineRel(r, f)
  \/ RemoteEOF
  \/ StartLocal(LocalRoot)
  \/ \E a \in {"absent", "ok", "lstat", "readdir", "info"}, z \in Sizes,
        f \in BOOLEAN : WalkEntry(a, z, f)
  \/ \E a \in {"absent", "ok", "lstat", "readdir"}, f \in BOOLEAN :
        WalkEntryRel(a, f)
  \/ LocalEnd
  \/ \E m \in ReportModes : runReport(m)
  \/ runReportRel

SpecScan == Init /\ [][NextScan]_vars

(***************************************************************************)
(* SpecRemote: remote scans of the composite variant over a listing that   *)
(* is fixed before the scan starts, with a store that does not fail.       *)
(***************************************************************************)
RECURSIVE SeqsUpTo(_, _)
SeqsUpTo(S, n) ==
  IF n = 0 THEN {<<>>}
  ELSE LET shorter == SeqsUpTo(S, n - 1) IN
       shorter \cup {Append(q, x) : q \in shorter, x \in S}

Listings == SeqsUpTo(Lines, MaxLines) \ {<<>>}

InitRemote ==
  /\ variant = "composite"
  /\ photos = initDB /\ files = initDBRel
  /\ pc = "idle" /\ root = Empty /\ lineNo = 0 /\ count = 0 /\ walkPos = 0
  /\ exit = "none" /\ out = NoOut /\ last = NoCall /\ prov = {}
  /\ conv = NoConv /\ stderr = FALSE /\ logged = 0 /\ hist = NoHist
  /\ listing \in Listings

\* scanner.Scan() yields the next line of the listing
RemoteNextLine ==
  /\ lineNo < Len(listing)
  /\ RemoteLine(listing[lineNo + 1], FALSE)

NextRemote ==
  \/ \E f, e \in BOOLEAN : StartRemote(RemoteRoot, f, e)
  \/ RemoteNextLine
  \/ RemoteEOF

SpecRemote == InitRemote /\ [][NextRemote]_vars

(***************************************************************************)
(* C2.  Scans never remove a record or clear a flag.                       *)
(***************************************************************************)
\* C2: in every step of any sequence of local and remote scans, every
\* record of the store is still there after the step, and a record that
\* was seen locally (seen remotely) before the step still is after it.
C2NeverCleared ==
  [][/\ \A o \in photos : \E n \in photos' :
          /\ n.filename = o.filename /\ n.size = o.size
          /\ SeenLocal(o) => SeenLocal(n)
          /\ SeenRemote(o) => SeenRemote(n)
     /\ \A o \in files : \E n \in files' :
          /\ n.rel_path = o.rel_path
          /\ SeenLocalRel(o) => SeenLocalRel(n)
          /\ SeenRemoteRel(o) => SeenRemoteRel(n)]_vars

(***************************************************************************)
(* C7.  Composite identity.                                                *)
(***************************************************************************)
C7Unique ==
  \A r1, r2 \in photos :
    (r1.filename = r2.filename /\ r1.size = r2.size) => r1 = r2

\* the step leaves exactly one record at (filename, size) and every
\* record of another base name or another size as it was
C7Merged(filename, size) ==
  /\ Cardinality({r \in photos' : r.filename = filename /\ r.size = size}) = 1
  /\ \A r \in photos  : (r.filename # filename \/ r.size # size) => r \in photos'
  /\ \A r \in photos' : (r.filename # filename \/ r.size # size) => r \in photos

\* the in-scope files of the local tree, by their position in the walk
C7LocalFiles ==
  {i \in 1..Len(LocalUniverse) :
     /\ ~LocalUniverse[i].isDir
     /\ LocalUniverse[i].rel[Len(LocalUniverse[i].rel)] \in {NameA, NameB}}

\* C7: under the composite scheme no two records of the store share
\* (filename, size); the merge of a candidate of either origin, at whatever
\* path, leaves exactly one record at the candidate's base name and size
\* and changes no record of another base name or another size.
C7CompositeIdentity ==
  /\ [](variant = "composite" => C7Unique)
  /\ [][/\ \A c \in Candidates :
             (c.name # NameT /\ RemoteLine(CandLine(c), FALSE))
               => C7Merged(c.name, c.size)
        /\ \A i \in C7LocalFiles, z \in Sizes :
             (walkPos = i /\ WalkEntry("ok", z, FALSE))
               => C7Merged(LocalUniverse[i].rel[Len(LocalUniverse[i].rel)], z)]_vars

\* a local walk has merged three candidates, two of them a.jpg of one byte
\* at different paths, into two records, and the record of a.jpg also
\* holds a remote path of another directory
C7Witness ==
  /\ variant = "composite" /\ pc = "local" /\ count = 3
  /\ Cardinality(photos) = 2
  /\ \E r \in photos :
       /\ r.filename = NameA /\ r.size = 1
       /\ r.local_path = LocalRoot \o <<Slash>> \o NameA
       /\ r.remote_path = RemoteRoot \o <<Slash>> \o DirD \o <<Slash>> \o NameA
  /\ \E r \in photos : r.filename = NameB

(***************************************************************************)
(* C8.  Relative-path identity.                                            *)
(***************************************************************************)
\* C8: under the relative-path scheme a candidate merged by a local scan
\* and a candidate merged by a remote scan are in the same record exactly
\* when their paths relative to their own scan roots are equal.
C8RelativeIdentity ==
  variant = "relpath" =>
    \A a, b \in prov :
      (a.origin = "local" /\ b.origin = "remote") =>
        ((\E r \in files : r.rel_path = a.key /\ r.rel_path = b.key)
           <=> a.rel = b.rel)

(***************************************************************************)
(* C9.  Remote-scan fault tolerance.                                       *)
(***************************************************************************)
C9Candidate(line) == CHOOSE c \in Candidates : CandLine(c) = line

\* L is made of valid in-scope lines with distinct identities and one
\* malformed line at position i
C9OneMalformedAt(L, i) ==
  /\ L[i] \in MalformedLines
  /\ \A j \in DOMAIN L \ {i} :
       /\ L[j] \in {CandLine(c) : c \in Candidates}
       /\ C9Candidate(L[j]).name # NameT
  /\ \A j, k \in DOMAIN L \ {i} :
       j # k => \/ C9Candidate(L[j]).name # C9Candidate(L[k]).name
                \/ C9Candidate(L[j]).size # C9Candidate(L[k]).size

\* C9: a remote scan of a listing of N valid in-scope lines with distinct
\* identities and one malformed line, at any position, is not aborted, and
\* when it has completed the store holds exactly N records and the scan
\* reports a skip count of one.
C9FaultTolerance ==
  (\E i \in DOMAIN listing : C9OneMalformedAt(listing, i)) =>
    /\ pc = "remote" => exit = "none"
    /\ out.kind = "added" =>
         /\ exit = "ok"
         /\ Cardinality(photos) = Len(listing) - 1
         /\ "skipped" \in DOMAIN out
         /\ out.skipped = 1

\* the half of C9 about the records: N records, no abort
C9Records ==
  (\E i \in DOMAIN listing : C9OneMalformedAt(listing, i)) =>
    /\ pc = "remote" => exit = "none"
    /\ out.kind = "added" =>
         /\ exit = "ok"
         /\ Cardinality(photos) = Len(listing) - 1
         /\ out.total = Len(listing) - 1

(***************************************************************************)
(* C10.  Local-scan partial-failure tolerance.                             *)
(***************************************************************************)
\* C10: a local scan is aborted by a failure of the file system only when
\* the failure is at the root; a failure at an entry below the root
\* (a directory that cannot be read, a file whose stat fails) leaves the
\* walk going.
C10OnlyRootAborts ==
  (out.kind = "fatal" /\ out.rows[1].op \in {"lstat", "readdir", "info"})
    => out.rows[1].path = root

(***************************************************************************)
(* C11.  Storage errors.                                                   *)
(***************************************************************************)
\* the step is a merge call of a scan that returned a storage error: the
\* remote loop logs it, the local callback returns it
C11MergeFails ==
  \/ logged' = logged + 1
  \/ pc = "local" /\ out'.kind = "fatal" /\ out'.rows[1].op = "storage"

\* the store half of C11: the failing call changes no record
C11Frame == [][C11MergeFails => (photos' = photos /\ files' = files)]_vars

\* C11: a merge call that fails with a storage error changes no record,
\* leaves every record of earlier merges as it was, and its candidate is
\* not treated as merged: the scan does not count it.
C11StorageError ==
  [][C11MergeFails =>
       (photos' = photos /\ files' = files /\ count' = count)]_vars

(***************************************************************************)
(* C12.  Transport failure.                                                *)
(***************************************************************************)
\* C12: a remote scan whose listing command exited non-zero or wrote to
\* its standard error has ended in a fatal transport failure before it
\* read a line, so that none of its candidates is merged.
C12TransportFailure ==
  /\ (out.kind = "fatal" /\ out.rows[1].op = "ssh") => pc = "idle"
  /\ stderr => /\ pc = "idle"
               /\ exit = "fatal"
               /\ out.kind = "fatal"
               /\ out.rows[1].op = "ssh"

(***************************************************************************)
(* SpecInterrupt: one scan over a store an earlier run has left, which the *)
(* user may interrupt between any two of its steps.  The merges go to the  *)
(* database handle, not to the transaction the remote loop opens, so each  *)
(* is committed when its call returns.                                     *)
(***************************************************************************)
InitInterrupt ==
  /\ variant \in Variants
  /\ pc = "idle" /\ root = Empty /\ lineNo = 0 /\ count = 0 /\ walkPos = 0
  /\ exit = "none" /\ out = NoOut /\ listing = <<>> /\ last = NoCall
  /\ prov = {} /\ conv = NoConv /\ stderr = FALSE /\ logged = 0
  /\ IF variant = "composite"
     THEN photos \in PriorPhotos(<<NameA, 1>>) /\ files = initDBRel
     ELSE photos = initDB /\ files \in PriorFiles(NameA)
  /\ hist = [on |-> TRUE, photos |-> photos, files |-> files, acc |-> <<>>]

\* the process is killed by a signal: nothing of runAdd runs any more
Interrupt ==
  /\ pc \in {"remote", "local"}
  /\ pc' = "idle"
  /\ exit' = "interrupted"
  /\ UNCHANGED <<variant, photos, files, root, lineNo, count, walkPos, out,
                 listing, last, prov, conv, stderr, logged, hist>>

NextInterrupt ==
  \/ \E p \in RemoteRoots, f, e \in BOOLEAN :
        /\ exit = "none"
        /\ variant = "composite" => p = RemoteRoot
        /\ StartRemote(p, f, e)
  \/ \E l \in Lines, f \in BOOLEAN : lineNo < MaxLines /\ RemoteLine(l, f)
  \/ \E r \in RemoteRels, f \in BOOLEAN : lineNo < MaxLines /\ RemoteLineRel(r, f)
  \/ RemoteEOF
  \/ exit = "none" /\ StartLocal(LocalRoot)
  \/ \E a \in {"absent", "ok", "lstat", "readdir", "info"}, z \in Sizes,
        f \in BOOLEAN : WalkEntry(a, z, f)
  \/ \E a \in {"absent", "ok", "lstat", "readdir"}, f \in BOOLEAN :
        WalkEntryRel(a, f)
  \/ LocalEnd
  \/ Interrupt

SpecInterrupt == InitInterrupt /\ [][NextInterrupt]_vars

(***************************************************************************)
(* C13.  Interrupt consistency.                                            *)
(***************************************************************************)
\* what the merge of one candidate makes of a store: the record of the
\* candidate's identity holds the candidate's origin, and of the other
\* origin what the store held before
C13Merge(db, c) ==
  LET old == {r \in db : r.filename = c.name /\ r.size = c.size}
      was == IF old = {} THEN [local_path |-> NULL, remote_path |-> NULL]
             ELSE CHOOSE r \in old : TRUE
  IN (db \ old) \cup
       {[filename    |-> c.name,
         size        |-> c.size,
         local_path  |-> IF c.origin = "local" THEN c.path ELSE was.local_path,
         remote_path |-> IF c.origin = "remote" THEN c.path ELSE was.remote_path]}

C13MergeRel(db, c) ==
  LET old == {r \in db : r.rel_path = c.key}
      was == IF old = {} THEN [on_local |-> 0, on_remote |-> 0]
             ELSE CHOOSE r \in old : TRUE
  IN (db \ old) \cup
       {[rel_path  |-> c.key,
         on_local  |-> IF c.origin = "local" THEN 1 ELSE was.on_local,
         on_remote |-> IF c.origin = "remote" THEN 1 ELSE was.on_remote]}

RECURSIVE C13Fold(_, _, _)
C13Fold(ph, fi, acc) ==
  IF acc = <<>> THEN <<ph, fi>>
  ELSE IF variant = "composite"
    THEN C13Fold(C13Merge(ph, Head(acc)), fi, Tail(acc))
    ELSE C13Fold(ph, C13MergeRel(fi, Head(acc)), Tail(acc))

\* C13: at every point of a scan, and when the scan has been interrupted,
\* the store is the store the scan found with the merges applied of the
\* candidates the scan has accepted up to that point, each of them and in
\* their order, which is a prefix of the candidates the scan accepts.
C13InterruptConsistency ==
  hist.on => <<photos, files>> = C13Fold(hist.photos, hist.files, hist.acc)

\* a scan was interrupted after it had merged two candidates into a store
\* that held a record before
C13Witness ==
  /\ hist.on /\ exit = "interrupted"
  /\ Len(hist.acc) = 2
  /\ hist.acc[1] # hist.acc[2]
  /\ hist.photos # {} \/ hist.files # {}
  /\ <<photos, files>> # <<hist.photos, hist.files>>

(***************************************************************************)
(* SpecConc: concurrent callers of the store.  A local caller and a remote *)
(* caller each send merges of one identity, a reader selects the record;   *)
(* the database runs each statement it was sent as one step, in any order. *)
(* The remote caller may hold the transaction of runAdd's remote loop      *)
(* open: its merges are sent to the database handle all the same.          *)
(***************************************************************************)
NoView == [read |-> FALSE]

InitConc ==
  /\ variant \in Variants
  /\ pc = "idle" /\ root = Empty /\ lineNo = 0 /\ count = 0 /\ walkPos = 0
  /\ exit = "none" /\ out = NoOut /\ listing = <<>> /\ last = NoCall
  /\ prov = {} /\ stderr = FALSE /\ logged = 0 /\ hist = NoHist
  /\ \E L \in ConvLocalPaths, R \in ConvRemotePaths :
       /\ IF variant = "composite"
          THEN photos \in PriorPhotos(<<NameA, 1>>) /\ files = initDBRel
          ELSE photos = initDB /\ files \in PriorFiles(NameA)
                 /\ L = Empty /\ R = Empty
       /\ conv = [on |-> TRUE,
                  id |-> IF variant = "composite" THEN <<NameA, 1>> ELSE NameA,
                  L |-> L, R |-> R, nL |-> 0, nR |-> 0,
                  photos |-> photos, files |-> files,
                  sentL |-> FALSE, sentR |-> FALSE, tx |-> "none",
                  view |-> NoView]

concFrame == <<variant, pc, root, lineNo, count, walkPos, exit, out, listing,
               last, prov, stderr, logged, hist>>

\* tx, _ := db.Begin()
ConcBegin ==
  /\ conv.tx = "none"
  /\ conv' = [conv EXCEPT !.tx = "open"]
  /\ UNCHANGED <<photos, files>> /\ UNCHANGED concFrame

\* tx.Commit(): the transaction holds no statement
ConcCommit ==
  /\ conv.tx = "open" /\ ~conv.sentR
  /\ conv' = [conv EXCEPT !.tx = "committed"]
  /\ UNCHANGED <<photos, files>> /\ UNCHANGED concFrame

\* a caller enters db.Exec
ConcSendLocal ==
  /\ ~conv.sentL /\ conv.nL < MaxCalls
  /\ conv' = [conv EXCEPT !.sentL = TRUE]
  /\ UNCHANGED <<photos, files>> /\ UNCHANGED concFrame

ConcSendRemote ==
  /\ ~conv.sentR /\ conv.nR < MaxCalls
  /\ conv' = [conv EXCEPT !.sentR = TRUE]
  /\ UNCHANGED <<photos, files>> /\ UNCHANGED concFrame

\* the database runs the statement and db.Exec returns
ConcExecLocal ==
  /\ conv.sentL
  /\ IF variant = "composite"
     THEN /\ photos' = upsertLocal(photos, conv.id[1], conv.id[2], conv.L)
          /\ files' = files
     ELSE /\ files' = upsertLocalRel(files, conv.id)
          /\ photos' = photos
  /\ conv' = [conv EXCEPT !.sentL = FALSE, !.nL = @ + 1]
  /\ UNCHANGED concFrame

ConcExecRemote ==
  /\ conv.sentR
  /\ IF variant = "composite"
     THEN /\ photos' = upsertRemote(photos, conv.id[1], conv.id[2], conv.R)
          /\ files' = files
     ELSE /\ files' = upsertRemoteRel(files, conv.id)
          /\ photos' = photos
  /\ conv' = [conv EXCEPT !.sentR = FALSE, !.nR = @ + 1]
  /\ UNCHANGED concFrame

\* a reader selects the record of the identity, as assertFileState does;
\* nL, nR: the merges of either origin that had run when it did
ConcRead ==
  /\ conv' = [conv EXCEPT !.view =
                [read |-> TRUE,
                 rows |-> IF variant = "composite"
                          THEN RowsAt(photos, conv.id[1], conv.id[2])
                          ELSE RowsAtRel(files, conv.id),
                 nL |-> conv.nL, nR |-> conv.nR,
                 sentL |-> conv.sentL, sentR |-> conv.sentR, tx |-> conv.tx]]
  /\ UNCHANGED <<photos, files>> /\ UNCHANGED concFrame

NextConc ==
  \/ ConcBegin
  \/ ConcCommit
  \/ ConcSendLocal
  \/ ConcSendRemote
  \/ ConcExecLocal
  \/ ConcExecRemote
  \/ ConcRead

SpecConc == InitConc /\ [][NextConc]_vars

(***************************************************************************)
(* C14.  Per-key atomicity under concurrent callers.                       *)
(***************************************************************************)
\* what the reader must find of one origin: what the store held before
\* the calls when no merge of that origin had run, the merged value when
\* one had; a record exists when one existed or a merge had run
C14Whole(v) ==
  IF variant = "composite"
  THEN /\ v.rows = {} <=> (conv.photos = {} /\ v.nL = 0 /\ v.nR = 0)
       /\ Cardinality(v.rows) <= 1
       /\ \A r \in v.rows :
            /\ r.local_path =
                 IF v.nL > 0 THEN conv.L
                 ELSE IF conv.photos = {} THEN NULL
                 ELSE (CHOOSE o \in conv.photos : TRUE).local_path
            /\ r.remote_path =
                 IF v.nR > 0 THEN conv.R
                 ELSE IF conv.photos = {} THEN NULL
                 ELSE (CHOOSE o \in conv.photos : TRUE).remote_path
  ELSE /\ v.rows = {} <=> (conv.files = {} /\ v.nL = 0 /\ v.nR = 0)
       /\ Cardinality(v.rows) <= 1
       /\ \A r \in v.rows :
            /\ r.on_local =
                 IF v.nL > 0 THEN 1
                 ELSE IF conv.files = {} THEN 0
                 ELSE (CHOOSE o \in conv.files : TRUE).on_local
            /\ r.on_remote =
                 IF v.nR > 0 THEN 1
                 ELSE IF conv.files = {} THEN 0
                 ELSE (CHOOSE o \in conv.files : TRUE).on_remote

\* C14: with a local and a remote caller merging the same identity
\* concurrently, inside the remote loop's transaction or outside it, what a
\* reader finds at any moment is the record with every merge that has run
\* applied whole and no merge that has not: each origin's field is the
\* merged value or the value before, never anything between.
C14PerKeyAtomicity ==
  (conv.on /\ "view" \in DOMAIN conv /\ conv.view.read) => C14Whole(conv.view)

\* the reader selected the record while both callers were inside db.Exec
\* and the transaction was open, after a local merge had run and before
\* any remote merge
C14Witness ==
  /\ conv.on /\ "view" \in DOMAIN conv /\ conv.view.read
  /\ conv.view.sentL /\ conv.view.sentR /\ conv.view.tx = "open"
  /\ conv.view.nL = 1 /\ conv.view.nR = 0
  /\ conv.view.rows # {}

(***************************************************************************)
(* C15.  The grouped report.                                               *)
(***************************************************************************)
RECURSIVE C15Sum(_)
C15Sum(rows) == IF rows = <<>> THEN 0 ELSE Head(rows)[2] + C15Sum(Tail(rows))

\* the local-only records whose local path lies in directory d
C15In(db, d) == {r \in LocalOnly(db) : Dir(r.local_path) = d}

\* C15: the grouped report has one entry per distinct containing directory
\* of the missing-from-remote local paths, with the number of those paths
\* in the directory, in ascending order of directory; the counts sum to
\* the reported total, and the flat report over the same store lists the
\* same paths.
C15GroupedReport ==
  (variant = "composite" /\ out.kind = "grouped") =>
    /\ {out.rows[i][1] : i \in 1..Len(out.rows)}
         = {Dir(r.local_path) : r \in LocalOnly(photos)}
    /\ \A i, j \in 1..Len(out.rows) :
         i < j => StrLess(out.rows[i][1], out.rows[j][1])
    /\ \A i \in 1..Len(out.rows) :
         out.rows[i][2] = Cardinality(C15In(photos, out.rows[i][1]))
    /\ C15Sum(out.rows) = out.total
    /\ out.total = VerboseReport(photos).total
    /\ \A i \in 1..Len(out.rows) :
         out.rows[i][2] =
           Cardinality({k \in 1..Len(VerboseReport(photos).rows) :
                          Dir(VerboseReport(photos).rows[k]) = out.rows[i][1]})

\* two local-only records under /l and one under /l/D: the report is
\* /l: 2, then /l/D: 1, total 3
C15Witness ==
  /\ variant = "composite" /\ out.kind = "grouped"
  /\ Cardinality(LocalOnly(photos)) = 3
  /\ out.rows = << <<LocalRoot, 2>>, <<LocalRoot \o <<Slash>> \o DirD, 1>> >>
  /\ out.total = 3

(***************************************************************************)
(* C16.  The final count.                                                  *)
(***************************************************************************)
\* C16: the count a scan reports when it ends is the number of in-scope
\* candidates the scan merged into the store.
C16FinalCount ==
  (hist.on /\ out.kind = "added") => out.total = Len(hist.acc)

\* the same without storage errors in the scan
C16CountNoStorageError ==
  (hist.on /\ out.kind = "added" /\ logged = 0) => out.total = Len(hist.acc)

(***************************************************************************)
(* SpecExt: isExtensionAllowed called with any path of up to MaxPathLen    *)
(* characters, and with the paths of TestIsExtensionAllowed, against       *)
(* allow-lists of up to two suffixes and the list of the test.             *)
(***************************************************************************)
ExtAlphabet == {".", "j", "J", "/"}

ExtPathsGen == SeqsUpTo(ExtAlphabet, MaxPathLen)

ExtSuffixes == {<<".", "j">>, <<".", "J">>, <<"j">>, <<"/", "j">>}

TestPhotoJpg ==
  <<"p", "h", "o", "t", "o", ".", "j", "p", "g">>
TestPhotoJPG ==
  <<"p", "h", "o", "t", "o", ".", "J", "P", "G">>
TestVideoMp4 ==
  <<"v", "i", "d", "e", "o", ".", "m", "p", "4">>
TestDocumentTxt ==
  <<"d", "o", "c", "u", "m", "e", "n", "t", ".", "t", "x", "t">>
TestImagePng ==
  <<"i", "m", "a", "g", "e", ".", "p", "n", "g">>
TestFolderJpgFile ==
  <<"f", "o", "l", "d", "e", "r", ".", "j", "p", "g", "/", "r", "e", "a", "l", "_", "f", "i", "l", "e", ".", "t", "x", "t">>
TestAbsolutePhotoJpg ==
  <<"/", "a", "b", "s", "o", "l", "u", "t", "e", "/", "p", "a", "t", "h", "/", "t", "o", "/", "p", "h", "o", "t", "o", ".", "j", "p", "g">>

TestPaths ==
  {TestPhotoJpg,
   TestPhotoJPG,
   TestVideoMp4,
   TestDocumentTxt,
   TestImagePng,
   TestFolderJpgFile,
   TestAbsolutePhotoJpg}

TestExtensions == <<<<".", "j", "p", "g">>, <<".", "J", "P", "G">>, <<".", "m", "p", "4">>>>

ExtLists == SeqsUpTo(ExtSuffixes, MaxExtensions) \cup {TestExtensions}

\* a caller about to call isExtensionAllowed with a path and a list
InitExt ==
  /\ variant \in Variants
  /\ photos = initDB /\ files = initDBRel
  /\ pc = "idle" /\ root = Empty /\ lineNo = 0 /\ count = 0 /\ walkPos = 0
  /\ exit = "none" /\ out = NoOut /\ listing = <<>> /\ prov = {}
  /\ conv = NoConv /\ stderr = FALSE /\ logged = 0 /\ hist = NoHist
  /\ \E path \in ExtPathsGen \cup TestPaths, extensions \in ExtLists :
       last = [fn |-> "pending", args |-> <<path, extensions>>,
               err |-> "nil", twice |-> FALSE, ret |-> FALSE]

\* the call of isExtensionAllowed and what it returned
CallIsExtensionAllowed ==
  /\ pc = "idle" /\ last.fn = "pending"
  /\ last' = [last EXCEPT !.fn = "isExtensionAllowed",
                          !.ret = isExtensionAllowed(last.args[1], last.args[2])]
  /\ UNCHANGED <<variant, photos, files, out, scanVars>>

NextExt == CallIsExtensionAllowed

SpecExt == InitExt /\ [][NextExt]_vars

(***************************************************************************)
(* C17.  The extension filter.                                             *)
(***************************************************************************)
\* the last characters of path are those of suffix, character by character
C17EndsWith(path, suffix) ==
  /\ Len(suffix) <= Len(path)
  /\ \A i \in 1..Len(suffix) :
       path[Len(path) - Len(suffix) + i] = suffix[i]

\* C17: isExtensionAllowed(path, extensions) is true exactly when the whole
\* path ends, character for character, with one of the suffixes of the
\* list; for the list {.jpg, .JPG, .mp4} it accepts photo.jpg, photo.JPG,
\* video.mp4 and /absolute/path/to/photo.jpg and rejects document.txt,
\* image.png and folder.jpg/real_file.txt.
C17ExtensionFilter ==
  last.fn = "isExtensionAllowed" =>
    /\ last.ret <=> \E i \in 1..Len(last.args[2]) :
                      C17EndsWith(last.args[1], last.args[2][i])
    /\ last.args[2] = TestExtensions =>
         /\ last.args[1] \in {TestPhotoJpg, TestPhotoJPG, TestVideoMp4,
                              TestAbsolutePhotoJpg} => last.ret
         /\ last.args[1] \in {TestDocumentTxt, TestImagePng,
                              TestFolderJpgFile} => ~last.ret

\* folder.jpg/real_file.txt was rejected against the list of the test: the
\* suffix .jpg ends an inner segment only
C17Witness ==
  /\ last.fn = "isExtensionAllowed"
  /\ last.args = <<TestFolderJpgFile, TestExtensions>>
  /\ ~last.ret

(***************************************************************************)
(* C18.  Reports change no record.                                         *)
(***************************************************************************)
\* C18: a step that ends with a report printed (flat, grouped or
\* size-mismatch), the schema initialisation of its startup included,
\* leaves the set of records and all their fields as they were.
C18ReportReadOnly ==
  [][out'.kind \in {"missing", "grouped", "wrong_size"}
       => (photos' = photos /\ files' = files)]_vars

\* a grouped report has run over a store of three records
C18Witness ==
  /\ out.kind = "grouped"
  /\ Cardinality(photos) = 3
  /\ out.total = 1

(***************************************************************************)
(* SpecLive: remote scans with the time ssh takes.  runAdd waits in        *)
(* sshCmd.Run() until ssh ends; nothing in runAdd makes ssh end.  The      *)
(* loop of runAdd itself comes to its end: the captured output is finite   *)
(* and the scanner reaches the end of it.                                  *)
(***************************************************************************)
\* runAdd with -remote, up to sshCmd.Run(): ssh is started and runAdd waits
SshRun(path) ==
  /\ pc = "idle"
  /\ pc' = "ssh"
  /\ root' = path
  /\ exit' = "none"
  /\ out' = NoOut
  /\ last' = NoCall
  /\ stderr' = FALSE
  /\ logged' = 0
  /\ photos' = createIfNotExists(photos)
  /\ files' = createIfNotExists(files)
  /\ UNCHANGED <<variant, lineNo, count, walkPos, listing, prov, conv, hist>>

\* ssh ends and sshCmd.Run() returns
SshExit(failed, errText) ==
  /\ pc = "ssh"
  /\ SshReturned(root, failed, errText)

NextLive ==
  \/ \E p \in RemoteRoots : (variant = "composite" => p = RemoteRoot) /\ SshRun(p)
  \/ \E f, e \in BOOLEAN : SshExit(f, e)
  \/ \E l \in Lines, f \in BOOLEAN : lineNo < MaxLines /\ RemoteLine(l, f)
  \/ \E r \in RemoteRels, f \in BOOLEAN : lineNo < MaxLines /\ RemoteLineRel(r, f)
  \/ RemoteEOF

SpecLive == Init /\ [][NextLive]_vars /\ WF_vars(RemoteEOF)

(***************************************************************************)
(* C19.  A remote scan never blocks indefinitely.                          *)
(***************************************************************************)
\* the part of C19 that is runAdd's own: once ssh has ended, the scan ends
C19EndsAfterTransport == (pc = "remote") ~> (pc = "idle")

\* C19: every remote scan that has been started eventually ends, completed
\* or failed; it does not wait for the listing command for ever.
C19NeverBlocks == (pc \in {"ssh", "remote"}) ~> (pc = "idle")

(***************************************************************************)
(* C20.  Every record has been observed by an origin.                      *)
(***************************************************************************)
\* C20: after any sequence of upsertLocal and upsertRemote calls, every
\* record of the store is seen locally or seen remotely.
C20ObservedSomewhere ==
  /\ \A r \in photos : SeenLocal(r) \/ SeenRemote(r)
  /\ \A r \in files : SeenLocalRel(r) \/ SeenRemoteRel(r)

\* the same for the relative-path variant alone, whose flags are columns
C20ObservedSomewhereRel ==
  \A r \in files : SeenLocalRel(r) \/ SeenRemoteRel(r)

(***************************************************************************)
(* SpecLast: one scan over a store an earlier run has left, as in          *)
(* SpecInterrupt, and the reports run after it.                            *)
(***************************************************************************)
NextLast ==
  \/ NextInterrupt
  \/ \E m \in ReportModes : runReport(m)
  \/ runReportRel

SpecLast == InitInterrupt /\ [][NextLast]_vars

(***************************************************************************)
(* C21.  The most recently merged path stays.                              *)
(***************************************************************************)
\* the positions in the scan's merges of the candidates of one origin and
\* one identity
C21At(origin, name, size) ==
  {i \in 1..Len(hist.acc) :
     /\ hist.acc[i].origin = origin
     /\ hist.acc[i].name = name
     /\ hist.acc[i].size = size}

C21Latest(I) == CHOOSE i \in I : \A j \in I : j <= i

\* the identities of the local-only records
C21Missing == {<<r.filename, r.size>> : r \in LocalOnly(photos)}

\* C21: under the composite scheme, when a scan has merged candidates of
\* one origin with the same (filename, size), the store holds one record
\* of that identity and its path of that origin is that of the candidate
\* merged last; the flat missing-from-remote report then lists one path
\* for each local-only identity, the record's, and its total counts each
\* identity once, however many local files share it.
C21LastPathWins ==
  (hist.on /\ variant = "composite") =>
    /\ \A i \in 1..Len(hist.acc) :
         LET c == hist.acc[i]
             L == C21At("local", c.name, c.size)
             R == C21At("remote", c.name, c.size)
             rows == {r \in photos : r.filename = c.name /\ r.size = c.size}
         IN /\ Cardinality(rows) = 1
            /\ \A r \in rows :
                 /\ L # {} => r.local_path = hist.acc[C21Latest(L)].path
                 /\ R # {} => r.remote_path = hist.acc[C21Latest(R)].path
    /\ out.kind = "missing" =>
         /\ out.total = Cardinality(C21Missing)
         /\ Len(out.rows) = Cardinality(C21Missing)
         /\ \A r \in LocalOnly(photos) :
              \E k \in 1..Len(out.rows) : out.rows[k] = r.local_path

\* a local scan merged a.jpg of one byte at /l/D/a.jpg and then at
\* /l/a.jpg into an empty store: the record holds /l/a.jpg and the report
\* lists that path alone, with a total of one
C21Witness ==
  /\ hist.on /\ variant = "composite"
  /\ hist.photos = {}
  /\ Len(hist.acc) = 2
  /\ hist.acc[1].origin = "local" /\ hist.acc[2].origin = "local"
  /\ hist.acc[1].name = hist.acc[2].name /\ hist.acc[1].size = hist.acc[2].size
  /\ hist.acc[1].path = LocalRoot \o <<Slash>> \o DirD \o <<Slash>> \o NameA
  /\ hist.acc[2].path = LocalRoot \o <<Slash>> \o NameA
  /\ out.kind = "missing"
  /\ out.rows = <<LocalRoot \o <<Slash>> \o NameA>>
  /\ out.total = 1

=============================================================================
